---- MODULE Spec2Model ----
(***************************************************************************)
(* Model of src/textual/_arrange.py: arrange, _arrange_split_widgets and   *)
(* _arrange_dock_widgets, one action per statement group or loop           *)
(* iteration.  Widgets are identified by their index in `children`.        *)
(***************************************************************************)
EXTENDS Integers, Sequences, FiniteSets, TLC

\* ------------------------------------------------------------------ bounds
MaxChildren == 3
MaxWidgets == 2

\* --------------------------------------------------------------- constants
TOP_Z == 2147483647

ValidEdges == {"top", "right", "bottom", "left"}
Edges == ValidEdges \cup {"middle"}

\* ---------------------------------------------------- geometry primitives
Max(a, b) == IF a >= b THEN a ELSE b

Size(w, h) == [width |-> w, height |-> h]

Region(x, y, w, h) == [x |-> x, y |-> y, width |-> w, height |-> h]

Spacing(t, r, b, l) == [top |-> t, right |-> r, bottom |-> b, left |-> l]

Offset(x, y) == [x |-> x, y |-> y]

NullSpacing == Spacing(0, 0, 0, 0)

NoRegion == [unbound |-> TRUE]

SizeRegion(sz) == Region(0, 0, sz.width, sz.height)

RegionSize(r) == Size(r.width, r.height)

RegionOffset(r) == Offset(r.x, r.y)

SpacingWidth(m) == m.left + m.right

SpacingHeight(m) == m.top + m.bottom

\* Region.split_vertical(cut): (left part, right part); cut < 0 counts from the end
SplitVertical(r, cut) ==
    LET c == IF cut < 0 THEN r.width + cut ELSE cut
    IN  <<Region(r.x, r.y, c, r.height), Region(r.x + c, r.y, r.width - c, r.height)>>

\* Region.split_horizontal(cut): (upper part, lower part)
SplitHorizontal(r, cut) ==
    LET c == IF cut < 0 THEN r.height + cut ELSE cut
    IN  <<Region(r.x, r.y, r.width, c), Region(r.x, r.y + c, r.width, r.height - c)>>

\* Region.shrink(margin)
Shrink(r, m) ==
    IF m = NullSpacing THEN r
    ELSE Region(r.x + m.left, r.y + m.top,
                Max(0, r.width - (m.left + m.right)),
                Max(0, r.height - (m.top + m.bottom)))

\* Region.translate(offset)
Translate(r, o) == Region(r.x + o.x, r.y + o.y, r.width, r.height)

\* Spacing.grow_maximum(other)
GrowMaximum(a, b) ==
    Spacing(Max(a.top, b.top), Max(a.right, b.right),
            Max(a.bottom, b.bottom), Max(a.left, b.left))

\* Offset.clamped
Clamped(o) == Offset(Max(0, o.x), Max(0, o.y))

\* ------------------------------------------------------- exact rationals
Frac(n, d) == [num |-> n, den |-> d]

\* int(Fraction): truncation toward zero
IntOf(f) == IF f.num >= 0 THEN f.num \div f.den ELSE -((-f.num) \div f.den)

\* ------------------------------------------------------ widget collaborators
Cells(n) == [unit |-> "cells", value |-> n]

Percent(n) == [unit |-> "percent", value |-> n]

\* Scalar.resolve against a basis fraction, never negative
Resolve(scalar, basis) ==
    IF scalar.unit = "cells" THEN Frac(scalar.value, 1)
    ELSE IF basis.num < 0 THEN Frac(0, 1)
    ELSE Frac(basis.num * scalar.value, basis.den * 100)

\* Widget._get_box_model(container, viewport, width_fraction, height_fraction)
GetBoxModel(w, container, vp, width_fraction, height_fraction) ==
    [width  |-> Resolve(w.width, width_fraction),
     height |-> Resolve(w.height, height_fraction),
     margin |-> w.margin]

\* Styles._align_size(child, parent)
AlignSize(st, child, parent) ==
    Offset(IF st.align_horizontal = "left" THEN 0
           ELSE IF st.align_horizontal = "center" THEN (parent.width - child.width) \div 2
           ELSE parent.width - child.width,
           IF st.align_vertical = "top" THEN 0
           ELSE IF st.align_vertical = "middle" THEN (parent.height - child.height) \div 2
           ELSE parent.height - child.height)

\* WidgetPlacement(region, margin, widget, order, absolute)
WidgetPlacement(region, margin, widget, order, absolute) ==
    [region |-> region, margin |-> margin, widget |-> widget,
     order |-> order, absolute |-> absolute]

\* ------------------------------------------------------------ input domains
Widget(display, layer, dock, split, box) ==
    [display |-> display, layer |-> layer, dock |-> dock, split |-> split,
     width |-> box.width, height |-> box.height, margin |-> box.margin,
     align_horizontal |-> box.align_horizontal, align_vertical |-> box.align_vertical]

Box(w, h, m, ah, av) ==
    [width |-> w, height |-> h, margin |-> m, align_horizontal |-> ah, align_vertical |-> av]

BoxA == Box(Cells(4), Cells(3), NullSpacing, "left", "top")

BoxB == Box(Cells(3), Cells(5), NullSpacing, "center", "middle")

BoxC == Box(Percent(50), Percent(50), NullSpacing, "left", "top")

BoxD == Box(Cells(2), Cells(1), Spacing(1, 0, 0, 1), "left", "top")

BoxE == Box(Cells(4), Cells(2), NullSpacing, "left", "top")

Boxes == {BoxA, BoxB, BoxC, BoxD}

SeqsUpTo(S, n) == UNION {[1..k -> S] : k \in 0..n}

\* widgets handed directly to _arrange_split_widgets
SplitInputs == {Widget("block", "default", "", e, b) : e \in Edges, b \in Boxes}

\* widgets handed directly to _arrange_dock_widgets
DockInputs == {Widget("block", "default", e, "", b) : e \in Edges, b \in Boxes}

BoxOfLayer(l) == IF l = "a" THEN BoxE ELSE BoxB

\* children handed to arrange
ArrangeInputs ==
    {Widget("none", "a", "", "top", BoxE)}
    \cup {Widget("block", l, "", "", BoxOfLayer(l)) : l \in {"a", "b"}}
    \cup {Widget("block", l, e, "", BoxOfLayer(l)) : l \in {"a", "b"}, e \in {"top", "left", "middle"}}
    \cup {Widget("block", l, "", e, BoxOfLayer(l)) : l \in {"a", "b"}, e \in {"top", "middle"}}

Sizes == {Size(20, 10), Size(0, 0)}

DockRegions == {Region(0, 0, 20, 10), Region(4, 0, 13, 10), Region(0, 0, 0, 0)}

Viewports == {Size(80, 24)}

ContainerStyles ==
    {[align_horizontal |-> "left", align_vertical |-> "top"],
     [align_horizontal |-> "center", align_vertical |-> "middle"]}

Ids(seq) == [i \in 1..Len(seq) |-> i]

\* ------------------------------------------------- pure parts of the code
\* faulty variant: the display filter is dropped
DisplayWidgetsAll(ch) == Ids(ch)

\* arrange: display_widgets (ids of the children that will be displayed)
DisplayWidgets(ch) == SelectSeq(Ids(ch), LAMBDA i : ch[i].display # "none")

\* partition(pred, widgets): (items where pred is falsy, items where it is truthy)
Partition(ch, ids, attr) ==
    IF attr = "split"
    THEN <<SelectSeq(ids, LAMBDA i : ch[i].split = ""), SelectSeq(ids, LAMBDA i : ch[i].split # "")>>
    ELSE <<SelectSeq(ids, LAMBDA i : ch[i].dock = ""), SelectSeq(ids, LAMBDA i : ch[i].dock # "")>>

\* faulty variant: a new layer is put before the layers already seen
LayerAppendFront(layers, key, wid) ==
    IF \E k \in 1..Len(layers) : layers[k].key = key
    THEN [k \in 1..Len(layers) |->
            IF layers[k].key = key
            THEN [key |-> key, widgets |-> Append(layers[k].widgets, wid)]
            ELSE layers[k]]
    ELSE <<[key |-> key, widgets |-> <<wid>>]>> \o layers

\* layers[widget.layer].append(widget) on an insertion-ordered mapping
LayerAppend(layers, key, wid) ==
    IF \E k \in 1..Len(layers) : layers[k].key = key
    THEN [k \in 1..Len(layers) |->
            IF layers[k].key = key
            THEN [key |-> key, widgets |-> Append(layers[k].widgets, wid)]
            ELSE layers[k]]
    ELSE Append(layers, [key |-> key, widgets |-> <<wid>>])

RECURSIVE BuildFrom(_, _, _, _)
BuildFrom(ch, ids, k, layers) ==
    IF k > Len(ids) THEN layers
    ELSE BuildFrom(ch, ids, k + 1, LayerAppend(layers, ch[ids[k]].layer, ids[k]))

\* _build_dock_layers(widgets)
BuildDockLayers(ch, ids) == BuildFrom(ch, ids, 1, <<>>)

\* faulty variant: the basis is the region left by the earlier split widgets
SplitBoxModelFromView(w, sz, view, vp) ==
    GetBoxModel(w, RegionSize(view), vp, Frac(view.width, 1), Frac(view.height, 1))

\* _arrange_split_widgets: the box model of one split widget
SplitBoxModel(w, sz, view, vp) ==
    GetBoxModel(w, sz, vp, Frac(sz.width, 1), Frac(sz.height, 1))

Consumed(box_model) ==
    Size(IntOf(box_model.width) + SpacingWidth(box_model.margin),
         IntOf(box_model.height) + SpacingHeight(box_model.margin))

\* _arrange_split_widgets: the edge dispatch of one iteration; an unknown
\* edge matches no branch and leaves both locals as they were
SplitCut(view, sregion, split, box_model) ==
    LET c == Consumed(box_model)
    IN  IF split = "bottom"
        THEN LET p == SplitHorizontal(view, -c.height)
             IN  [view_region |-> p[1], split_region |-> p[2]]
        ELSE IF split = "top"
        THEN LET p == SplitHorizontal(view, c.height)
             IN  [view_region |-> p[2], split_region |-> p[1]]
        ELSE IF split = "left"
        THEN LET p == SplitVertical(view, c.width)
             IN  [view_region |-> p[2], split_region |-> p[1]]
        ELSE IF split = "right"
        THEN LET p == SplitVertical(view, -c.width)
             IN  [view_region |-> p[1], split_region |-> p[2]]
        ELSE [view_region |-> view, split_region |-> sregion]

\* faulty variant: the split placement gets the z-index of flow content
SplitPlacementFlow(sregion, wid) == WidgetPlacement(sregion, NullSpacing, wid, 0, TRUE)

\* _arrange_split_widgets: the placement of one split widget
SplitPlacement(sregion, wid) == WidgetPlacement(sregion, NullSpacing, wid, 1, TRUE)

\* faulty variant: the rectangle spans the region's perpendicular dimension
DockRectFullSpan(edge, width, height, c) ==
    IF edge = "bottom" THEN Region(0, height - c.height, width, c.height)
    ELSE IF edge = "top" THEN Region(0, 0, width, c.height)
    ELSE IF edge = "left" THEN Region(0, 0, c.width, height)
    ELSE Region(width - c.width, 0, c.width, height)

\* _arrange_dock_widgets: the rectangle of one dock widget (edge is valid)
DockRect(edge, width, height, c) ==
    IF edge = "bottom" THEN Region(0, height - c.height, c.width, c.height)
    ELSE IF edge = "top" THEN Region(0, 0, c.width, c.height)
    ELSE IF edge = "left" THEN Region(0, 0, c.width, c.height)
    ELSE Region(width - c.width, 0, c.width, c.height)

\* faulty variant: thicknesses on one edge are summed
DockEdgesSum(e, edge, c) ==
    IF edge = "bottom" THEN [e EXCEPT !.bottom = e.bottom + c.height]
    ELSE IF edge = "top" THEN [e EXCEPT !.top = e.top + c.height]
    ELSE IF edge = "left" THEN [e EXCEPT !.left = e.left + c.width]
    ELSE [e EXCEPT !.right = e.right + c.width]

\* _arrange_dock_widgets: the running maxima top, right, bottom, left
DockEdges(e, edge, c) ==
    IF edge = "bottom" THEN [e EXCEPT !.bottom = Max(e.bottom, c.height)]
    ELSE IF edge = "top" THEN [e EXCEPT !.top = Max(e.top, c.height)]
    ELSE IF edge = "left" THEN [e EXCEPT !.left = Max(e.left, c.width)]
    ELSE [e EXCEPT !.right = Max(e.right, c.width)]

\* faulty variant: the dock placement is not marked absolute
DockPlacementRelative(w, wid, rect, c, sz, region_offset) ==
    LET align_offset == AlignSize(w, c, sz)
        shrunk == Translate(Shrink(rect, w.margin), align_offset)
    IN  WidgetPlacement(Translate(shrunk, region_offset), NullSpacing, wid, TOP_Z, FALSE)

\* _arrange_dock_widgets: the placement of one dock widget
DockPlacement(w, wid, rect, c, sz, region_offset) ==
    LET align_offset == AlignSize(w, c, sz)
        shrunk == Translate(Shrink(rect, w.margin), align_offset)
    IN  WidgetPlacement(Translate(shrunk, region_offset), NullSpacing, wid, TOP_Z, TRUE)

\* faulty variant: every layer contributes, with or without flow widgets
GrowScrollAlways(scroll, spacing, layout) == GrowMaximum(scroll, spacing)

\* arrange: scroll_spacing after one layer
GrowScroll(scroll, spacing, layout) ==
    IF layout # <<>> THEN GrowMaximum(scroll, spacing) ELSE scroll

\* ------------------------------------------------ flow layout collaborator
RECURSIVE StackFrom(_, _, _, _, _, _)
StackFrom(ch, ids, k, y, sz, vp) ==
    IF k > Len(ids) THEN <<>>
    ELSE LET bm == GetBoxModel(ch[ids[k]], sz, vp, Frac(sz.width, 1), Frac(sz.height, 1))
             c == Consumed(bm)
         IN  <<WidgetPlacement(Shrink(Region(0, y, c.width, c.height), bm.margin),
                               bm.margin, ids[k], 0, FALSE)>>
             \o StackFrom(ch, ids, k + 1, y + c.height, sz, vp)

\* widget._layout.arrange(widget, layout_widgets, size): a vertical stack
LayoutArrange(ch, ids, sz, vp) == StackFrom(ch, ids, 1, 0, sz, vp)

\* WidgetPlacement.get_bounds(placements)
GetBounds(ps) ==
    IF ps = <<>> THEN Region(0, 0, 0, 0)
    ELSE LET I == 1..Len(ps)
             x1 == CHOOSE v \in {ps[i].region.x : i \in I} : \A i \in I : v <= ps[i].region.x
             y1 == CHOOSE v \in {ps[i].region.y : i \in I} : \A i \in I : v <= ps[i].region.y
             x2 == CHOOSE v \in {ps[i].region.x + ps[i].region.width : i \in I} :
                      \A i \in I : v >= ps[i].region.x + ps[i].region.width
             y2 == CHOOSE v \in {ps[i].region.y + ps[i].region.height : i \in I} :
                      \A i \in I : v >= ps[i].region.y + ps[i].region.height
         IN  Region(x1, y1, x2 - x1, y2 - y1)

\* WidgetPlacement.translate(placements, offset)
TranslatePlacements(ps, o) ==
    [i \in 1..Len(ps) |-> [ps[i] EXCEPT !.region = Translate(ps[i].region, o)]]

\* arrange: the flow placements of one layer, aligned and made absolute
FlowPlacements(ch, st, layout, region, vp) ==
    LET lp == LayoutArrange(ch, layout, RegionSize(region), vp)
        base == RegionOffset(region)
        al == IF st.align_horizontal # "left" \/ st.align_vertical # "top"
              THEN Clamped(AlignSize(st, RegionSize(GetBounds(lp)), RegionSize(region)))
              ELSE Offset(0, 0)
        placement_offset == Offset(base.x + al.x, base.y + al.y)
    IN  IF placement_offset # Offset(0, 0) THEN TranslatePlacements(lp, placement_offset) ELSE lp

\* -------------------------------------------------------------------- state
VARIABLES entry, children, size, viewport, styles, pc,
          display_widgets, dock_layers, layer_i,
          non_split_widgets, split_widgets, split_i, view_region, split_region,
          split_placements, box_model,
          layout_widgets, dock_widgets, dock_i, region, edges, dock_placements,
          dock_region, dock_spacing, placements, scroll_spacing,
          result, error, layer_log

inputs == <<entry, children, size, viewport, styles>>

split_locals == <<split_widgets, split_i, view_region, split_region, split_placements,
                  box_model>>

dock_locals == <<dock_widgets, dock_i, region, edges, dock_placements>>

arrange_locals == <<display_widgets, dock_layers, layer_i, non_split_widgets,
                    layout_widgets, dock_region, dock_spacing, placements,
                    scroll_spacing, layer_log>>

vars == <<inputs, pc, split_locals, dock_locals, arrange_locals, result, error>>

NoResult == [none |-> TRUE]

NoBoxModel == [unbound |-> TRUE]

InitLocals ==
    /\ display_widgets = <<>> /\ dock_layers = <<>> /\ layer_i = 1
    /\ non_split_widgets = <<>> /\ layout_widgets = <<>>
    /\ dock_region = NoRegion /\ dock_spacing = NullSpacing
    /\ placements = <<>> /\ scroll_spacing = NullSpacing
    /\ split_i = 1 /\ split_region = NoRegion /\ split_placements = <<>>
    /\ box_model = NoBoxModel
    /\ dock_i = 1 /\ edges = NullSpacing /\ dock_placements = <<>>
    /\ result = NoResult /\ error = "" /\ layer_log = <<>>

\* a call of arrange(widget, children, size, viewport)
InitArrange ==
    /\ entry = "arrange" /\ pc = "arrange"
    /\ children \in SeqsUpTo(ArrangeInputs, MaxChildren)
    /\ size \in Sizes
    /\ styles \in ContainerStyles
    /\ split_widgets = <<>> /\ view_region = NoRegion
    /\ dock_widgets = <<>> /\ region = NoRegion

\* a call of _arrange_split_widgets(split_widgets, size, viewport)
InitSplit ==
    /\ entry = "split" /\ pc = "split"
    /\ children \in SeqsUpTo(SplitInputs, MaxWidgets)
    /\ size \in Sizes \cup {Size(1, 1)}
    /\ styles = [align_horizontal |-> "left", align_vertical |-> "top"]
    /\ split_widgets = Ids(children) /\ view_region = SizeRegion(size)
    /\ dock_widgets = <<>> /\ region = NoRegion

\* a call of _arrange_dock_widgets(dock_widgets, region, viewport)
InitDock ==
    /\ entry = "dock" /\ pc = "dock"
    /\ children \in SeqsUpTo(DockInputs, MaxWidgets)
    /\ region \in DockRegions
    /\ size = RegionSize(region)
    /\ styles = [align_horizontal |-> "left", align_vertical |-> "top"]
    /\ dock_widgets = Ids(children)
    /\ split_widgets = <<>> /\ view_region = NoRegion

Init ==
    /\ viewport \in Viewports
    /\ InitLocals
    /\ (InitArrange \/ InitSplit \/ InitDock)

\* ------------------------------------------------------------------ actions
\* arrange, lines 48-59: filter the displayed children and group them by layer
ArrangeBegin ==
    /\ pc = "arrange"
    /\ display_widgets' = DisplayWidgets(children)
    /\ dock_layers' = BuildDockLayers(children, DisplayWidgets(children))
    /\ layer_i' = 1
    /\ pc' = "layer"
    /\ UNCHANGED <<inputs, split_locals, dock_locals, non_split_widgets, layout_widgets,
                   dock_region, dock_spacing, placements, scroll_spacing, layer_log,
                   result, error>>

\* arrange, lines 61-70: next layer, partition on split, call the split stage
ArrangeLayer ==
    /\ pc = "layer" /\ layer_i <= Len(dock_layers)
    /\ LET p == Partition(children, dock_layers[layer_i].widgets, "split")
       IN  /\ non_split_widgets' = p[1]
           /\ split_widgets' = p[2]
           /\ IF p[2] # <<>>
              THEN /\ view_region' = SizeRegion(size)
                   /\ split_i' = 1 /\ split_region' = NoRegion /\ split_placements' = <<>>
                   /\ box_model' = NoBoxModel
                   /\ pc' = "split"
                   /\ UNCHANGED dock_region
              ELSE /\ dock_region' = SizeRegion(size)
                   /\ pc' = "dock_part"
                   /\ UNCHANGED <<view_region, split_i, split_region, split_placements,
                                  box_model>>
    /\ UNCHANGED <<inputs, dock_locals, display_widgets, dock_layers, layer_i,
                   layout_widgets, dock_spacing, placements, scroll_spacing, layer_log,
                   result, error>>

\* _arrange_split_widgets, lines 206-226: one iteration of the loop
SplitStep ==
    /\ pc = "split" /\ split_i <= Len(split_widgets)
    /\ LET wid == split_widgets[split_i]
           w == children[wid]
           bm == SplitBoxModel(w, size, view_region, viewport)
           cut == SplitCut(view_region, split_region, w.split, bm)
       IN  /\ box_model' = bm
           /\ IF cut.split_region = NoRegion
              THEN \* split_region is read before any branch assigned it
                /\ pc' = "raised" /\ error' = "UnboundLocalError"
                /\ UNCHANGED <<split_widgets, split_i, view_region, split_region,
                               split_placements>>
              ELSE /\ view_region' = cut.view_region
                /\ split_region' = cut.split_region
                /\ split_placements' = Append(split_placements, SplitPlacement(cut.split_region, wid))
                /\ split_i' = split_i + 1
                /\ UNCHANGED <<pc, error, split_widgets>>
    /\ UNCHANGED <<inputs, dock_locals, arrange_locals, result>>

\* _arrange_split_widgets, line 228, and arrange, lines 65-68
SplitReturn ==
    /\ pc = "split" /\ split_i > Len(split_widgets)
    /\ IF entry = "split"
       THEN /\ result' = [placements |-> split_placements, region |-> view_region]
            /\ pc' = "done"
            /\ UNCHANGED <<placements, dock_region>>
       ELSE /\ placements' = placements \o split_placements
            /\ dock_region' = view_region
            /\ pc' = "dock_part"
            /\ UNCHANGED result
    /\ UNCHANGED <<inputs, split_locals, dock_locals, display_widgets, dock_layers, layer_i,
                   non_split_widgets, layout_widgets, dock_spacing, scroll_spacing,
                   layer_log, error>>

\* arrange, lines 74-83: partition on dock, call the dock stage
ArrangeDock ==
    /\ pc = "dock_part"
    /\ LET p == Partition(children, non_split_widgets, "dock")
       IN  /\ layout_widgets' = p[1]
           /\ dock_widgets' = p[2]
           /\ IF p[2] # <<>>
              THEN /\ region' = dock_region
                   /\ dock_i' = 1 /\ edges' = NullSpacing /\ dock_placements' = <<>>
                   /\ pc' = "dock"
                   /\ UNCHANGED dock_spacing
              ELSE /\ dock_spacing' = NullSpacing
                   /\ pc' = "flow"
                   /\ UNCHANGED <<region, dock_i, edges, dock_placements>>
    /\ UNCHANGED <<inputs, split_locals, display_widgets, dock_layers, layer_i,
                   non_split_widgets, dock_region, placements, scroll_spacing, layer_log,
                   result, error>>

\* _arrange_dock_widgets, lines 142-180: one iteration of the loop
DockStep ==
    /\ pc = "dock" /\ dock_i <= Len(dock_widgets)
    /\ LET wid == dock_widgets[dock_i]
           w == children[wid]
           sz == RegionSize(region)
           bm == GetBoxModel(w, sz, viewport, Frac(sz.width, 1), Frac(sz.height, 1))
           c == Consumed(bm)
       IN  IF w.dock \notin ValidEdges
           THEN /\ pc' = "raised" /\ error' = "AssertionError"
                /\ UNCHANGED dock_locals
           ELSE /\ edges' = DockEdges(edges, w.dock, c)
                /\ dock_placements' =
                     Append(dock_placements,
                            DockPlacement(w, wid, DockRect(w.dock, sz.width, sz.height, c),
                                          c, sz, RegionOffset(region)))
                /\ dock_i' = dock_i + 1
                /\ UNCHANGED <<pc, error, dock_widgets, region>>
    /\ UNCHANGED <<inputs, split_locals, arrange_locals, result>>

\* _arrange_dock_widgets, lines 181-182, and arrange, lines 78-81
DockReturn ==
    /\ pc = "dock" /\ dock_i > Len(dock_widgets)
    /\ IF entry = "dock"
       THEN /\ result' = [placements |-> dock_placements, spacing |-> edges]
            /\ pc' = "done"
            /\ UNCHANGED <<placements, dock_spacing>>
       ELSE /\ placements' = placements \o dock_placements
            /\ dock_spacing' = edges
            /\ pc' = "flow"
            /\ UNCHANGED result
    /\ UNCHANGED <<inputs, split_locals, dock_locals, display_widgets, dock_layers, layer_i,
                   non_split_widgets, layout_widgets, dock_region, scroll_spacing,
                   layer_log, error>>

\* arrange, lines 86-112: shrink the region, lay out the flow widgets
ArrangeFlow ==
    /\ pc = "flow"
    /\ LET reduced == Shrink(dock_region, dock_spacing)
       IN  placements' =
             IF layout_widgets # <<>>
             THEN placements \o FlowPlacements(children, styles, layout_widgets, reduced, viewport)
             ELSE placements
    /\ scroll_spacing' = GrowScroll(scroll_spacing, dock_spacing, layout_widgets)
    /\ layer_log' = Append(layer_log, [key |-> dock_layers[layer_i].key,
                                       dock_spacing |-> dock_spacing])
    /\ layer_i' = layer_i + 1
    /\ pc' = "layer"
    /\ UNCHANGED <<inputs, split_locals, dock_locals, display_widgets, dock_layers,
                   non_split_widgets, layout_widgets, dock_region, dock_spacing,
                   result, error>>

\* arrange, line 114
ArrangeReturn ==
    /\ pc = "layer" /\ layer_i > Len(dock_layers)
    /\ result' = [placements |-> placements,
                  widgets |-> {display_widgets[i] : i \in 1..Len(display_widgets)},
                  scroll_spacing |-> scroll_spacing]
    /\ pc' = "done"
    /\ UNCHANGED <<inputs, split_locals, dock_locals, arrange_locals, error>>

Next ==
    \/ ArrangeBegin
    \/ ArrangeLayer
    \/ SplitStep
    \/ SplitReturn
    \/ ArrangeDock
    \/ DockStep
    \/ DockReturn
    \/ ArrangeFlow
    \/ ArrangeReturn

Spec == Init /\ [][Next]_vars

\* --------------------------------------------------------------- properties
Visible(i) == children[i].display # "none"

IsSplit(i) == children[i].split # ""

IsDock(i) == children[i].split = "" /\ children[i].dock # ""

IsFlow(i) == children[i].split = "" /\ children[i].dock = ""

MaxOver(S) == IF S = {} THEN 0 ELSE CHOOSE m \in S : \A x \in S : x <= m

RECURSIVE SumOver(_, _)
SumOver(f, S) ==
    IF S = {} THEN 0
    ELSE LET x == CHOOSE y \in S : TRUE IN f[x] + SumOver(f, S \ {x})

\* thickness a split widget consumes on its axis
SplitThickness(i) ==
    LET c == Consumed(GetBoxModel(children[i], size, viewport,
                                  Frac(size.width, 1), Frac(size.height, 1)))
    IN  IF children[i].split \in {"top", "bottom"} THEN c.height ELSE c.width

\* split widgets already processed by the loop
SplitDone == {split_widgets[k] : k \in 1..(split_i - 1)}

SplitTotal(edge) ==
    SumOver([i \in 1..Len(children) |-> SplitThickness(i)],
            {i \in SplitDone : children[i].split = edge})

\* the region left after cutting every processed split widget out of its edge
SuccessiveCuts ==
    Region(SplitTotal("left"), SplitTotal("top"),
           size.width - SplitTotal("left") - SplitTotal("right"),
           size.height - SplitTotal("top") - SplitTotal("bottom"))

\* C1: in _arrange_split_widgets the remaining region is the available area
\* with the thickness of every processed split widget cut out of its edge,
\* top/left from the start and bottom/right from the end; a left split of 4
\* then a right split of 3 in a 20x10 area leave origin (4,0), size (13,10).
C1_SplitCumulative ==
    (pc = "split" /\ \A i \in SplitDone : children[i].split \in ValidEdges)
        => view_region = SuccessiveCuts

\* thickness a dock widget consumes on the axis of `edge`
DockThickness(i, edge) ==
    LET sz == RegionSize(region)
        c == Consumed(GetBoxModel(children[i], sz, viewport,
                                  Frac(sz.width, 1), Frac(sz.height, 1)))
    IN  IF edge \in {"top", "bottom"} THEN c.height ELSE c.width

DockDone == {dock_widgets[k] : k \in 1..(dock_i - 1)}

DockMax(edge) == MaxOver({DockThickness(i, edge) : i \in {j \in DockDone : children[j].dock = edge}})

\* C2: each component of the dock spacing is the maximum consumed thickness
\* over the widgets docked to that edge, 0 when there is none, never the sum.
C2_DockIsMax ==
    /\ pc = "dock" => edges = Spacing(DockMax("top"), DockMax("right"),
                                      DockMax("bottom"), DockMax("left"))
    /\ (pc = "done" /\ entry = "dock")
          => result.spacing = Spacing(DockMax("top"), DockMax("right"),
                                      DockMax("bottom"), DockMax("left"))

\* two widgets docked top with consumed heights 3 and 5 returned top spacing 5
C2_Witness ==
    /\ pc = "done" /\ entry = "dock" /\ Len(children) = 2
    /\ children[1].dock = "top" /\ children[2].dock = "top"
    /\ {DockThickness(1, "top"), DockThickness(2, "top")} = {3, 5}
    /\ result.spacing.top = 5

VisibleIds == {i \in 1..Len(children) : Visible(i)}

\* the layer holds at least one flow widget
HasFlow(key) == \E i \in VisibleIds : children[i].layer = key /\ IsFlow(i)

FlowLayerSpacings == {layer_log[k].dock_spacing : k \in {j \in 1..Len(layer_log) : HasFlow(layer_log[j].key)}}

ScrollMax ==
    Spacing(MaxOver({sp.top : sp \in FlowLayerSpacings}),
            MaxOver({sp.right : sp \in FlowLayerSpacings}),
            MaxOver({sp.bottom : sp \in FlowLayerSpacings}),
            MaxOver({sp.left : sp \in FlowLayerSpacings}))

\* C3: the scroll spacing is the component-wise maximum of the dock spacing
\* over exactly the layers that hold a flow widget; layers with only docked
\* or split widgets contribute nothing.
C3_ScrollSpacing ==
    /\ (entry = "arrange" /\ pc = "layer") => scroll_spacing = ScrollMax
    /\ (entry = "arrange" /\ pc = "done") => result.scroll_spacing = ScrollMax

\* a layer with dock top 2 and flow content, another with dock top 5 and no
\* flow content, scroll spacing top 2
C3_Witness ==
    /\ entry = "arrange" /\ pc = "done" /\ Len(layer_log) = 2
    /\ \E k \in 1..2 : HasFlow(layer_log[k].key) /\ layer_log[k].dock_spacing.top = 2
    /\ \E k \in 1..2 : ~HasFlow(layer_log[k].key) /\ layer_log[k].dock_spacing.top = 5
    /\ result.scroll_spacing.top = 2

\* the edge the stages look at is one of top, right, bottom, left
EdgeValid(i) ==
    IF IsSplit(i) THEN children[i].split \in ValidEdges
    ELSE IF IsDock(i) THEN children[i].dock \in ValidEdges
    ELSE TRUE

PlacedIn(ps) == {ps[k].widget : k \in 1..Len(ps)}

\* C4: a visible child with an unrecognised dock or split edge makes the call
\* raise; no result is returned and no placement is emitted for that widget.
C4_InvalidEdgeFatal ==
    /\ pc = "done" => \A i \in VisibleIds : EdgeValid(i)
    /\ \A i \in PlacedIn(placements) \cup PlacedIn(split_placements) \cup PlacedIn(dock_placements) :
          EdgeValid(i)

\* C5: no placement references a child whose display is none, no such child
\* reaches the flow layout, and the visible set is exactly the displayed children.
C5_VisibilityGate ==
    /\ PlacedIn(placements) \cup PlacedIn(split_placements) \cup PlacedIn(dock_placements)
          \subseteq VisibleIds
    /\ \A k \in 1..Len(layout_widgets) : Visible(layout_widgets[k])
    /\ (entry = "arrange" /\ pc = "done") => result.widgets = VisibleIds

\* a result whose placements skip a hidden child that carries a split edge
C5_Witness ==
    /\ entry = "arrange" /\ pc = "done"
    /\ \E i \in 1..Len(children) : ~Visible(i) /\ children[i].split # ""
    /\ result.placements # <<>>
    /\ \E i \in VisibleIds : IsFlow(i)

\* position at which the layer of widget i is first seen among the visible children
FirstSeen(i) == CHOOSE j \in VisibleIds :
                   /\ children[j].layer = children[i].layer
                   /\ \A k \in VisibleIds : children[k].layer = children[i].layer => j <= k

\* 1 for split widgets, 2 for dock widgets, 3 for flow widgets
Group(i) == IF IsSplit(i) THEN 1 ELSE IF IsDock(i) THEN 2 ELSE 3

Before(i, j) ==
    \/ FirstSeen(i) < FirstSeen(j)
    \/ FirstSeen(i) = FirstSeen(j) /\ Group(i) < Group(j)
    \/ FirstSeen(i) = FirstSeen(j) /\ Group(i) = Group(j) /\ i < j

\* C6: the returned placements go layer by layer in first-seen layer order,
\* and inside a layer split, then dock, then flow, each group in input order.
C6_PlacementOrder ==
    (entry = "arrange" /\ pc = "done") =>
        LET ps == result.placements
        IN  /\ PlacedIn(ps) = VisibleIds
            /\ \A a, b \in 1..Len(ps) : a < b => Before(ps[a].widget, ps[b].widget)

\* layer tags b, a, b: the split of layer b, the flow of layer b, then layer a
C6_Witness ==
    /\ entry = "arrange" /\ pc = "done" /\ Len(children) = 3
    /\ children[1].layer = "b" /\ children[2].layer = "a" /\ children[3].layer = "b"
    /\ IsFlow(1) /\ IsDock(2) /\ IsSplit(3)
    /\ [k \in 1..Len(result.placements) |-> result.placements[k].widget] = <<3, 1, 2>>

\* placement a is painted before placement b: ordered by (z-index, list position)
PaintedBefore(ps, a, b) ==
    \/ ps[a].order < ps[b].order
    \/ ps[a].order = ps[b].order /\ a < b

NonNegative(r) == r.width >= 0 /\ r.height >= 0

ZeroInput == children = <<>> \/ size = Size(0, 0)

AbsolutePlaced(ps) == {k \in 1..Len(ps) : ps[k].absolute}

PercentOf(scalar, basis) == (Max(0, basis) * scalar.value) \div 100

\* a step of the split loop is about to process split_widgets[split_i]
SplitPending == pc = "split" /\ split_i <= Len(split_widgets)

\* C9: the box model of a split widget is computed against the current region,
\* already reduced by the earlier split widgets, so a relative size is taken
\* from the remaining region.
C9_BasisIsCurrentRegion ==
    [][SplitPending =>
          LET w == children[split_widgets[split_i]]
          IN  /\ w.width.unit = "percent" =>
                    IntOf(box_model'.width) = PercentOf(w.width, view_region.width)
              /\ w.height.unit = "percent" =>
                    IntOf(box_model'.height) = PercentOf(w.height, view_region.height)]_vars

\* C9 as amended: the box model of every split widget is computed against the
\* original available size, whatever the earlier split widgets consumed.
C9_BasisIsAvailableSize ==
    [][SplitPending =>
          LET w == children[split_widgets[split_i]]
          IN  /\ w.width.unit = "percent" =>
                    IntOf(box_model'.width) = PercentOf(w.width, size.width)
              /\ w.height.unit = "percent" =>
                    IntOf(box_model'.height) = PercentOf(w.height, size.height)]_vars

\* a half-width split placed after a left split of 4 in a 20x10 area is 10 wide
C9_Witness ==
    /\ entry = "split" /\ pc = "split" /\ split_i = 3 /\ size = Size(20, 10)
    /\ children[1].split = "left" /\ SplitThickness(1) = 4
    /\ children[2].split = "left" /\ children[2].width = Percent(50)
    /\ IntOf(box_model.width) = 10
    /\ split_placements[2].region = Region(4, 0, 10, 10)

DockBox(i) ==
    LET sz == RegionSize(region)
    IN  GetBoxModel(children[i], sz, viewport, Frac(sz.width, 1), Frac(sz.height, 1))

DockAlign(i) == AlignSize(children[i], Consumed(DockBox(i)), RegionSize(region))

\* C10: before margin shrink and alignment the rectangle of a dock widget is
\* flush against its edge and spans the full perpendicular dimension of the
\* region; the placement is that rectangle shrunk by the margin, translated by
\* the alignment offset and by the region's origin.
C10_DockSpansRegion ==
    pc = "dock" =>
        \A k \in 1..Len(dock_placements) :
            LET i == dock_placements[k].widget
                m == children[i].margin
                r == dock_placements[k].region
            IN  IF children[i].dock \in {"top", "bottom"}
                THEN r.width = Max(0, region.width - SpacingWidth(m))
                ELSE r.height = Max(0, region.height - SpacingHeight(m))

\* C10 as amended: the rectangle of a dock widget is flush against its edge and
\* has the widget's own consumed width and height on both axes; the placement
\* is that rectangle shrunk by the margin, translated by the alignment offset
\* and by the region's origin.
C10_DockWidgetSized ==
    pc = "dock" =>
        \A k \in 1..Len(dock_placements) :
            LET i == dock_placements[k].widget
                m == children[i].margin
                c == Consumed(DockBox(i))
                r == dock_placements[k].region
            IN  /\ r.width = IntOf(DockBox(i).width)
                /\ r.height = IntOf(DockBox(i).height)
                /\ r.x = region.x + DockAlign(i).x + m.left
                           + (IF children[i].dock = "right" THEN region.width - c.width ELSE 0)
                /\ r.y = region.y + DockAlign(i).y + m.top
                           + (IF children[i].dock = "bottom" THEN region.height - c.height ELSE 0)

\* a 2x1 widget with margin docked top in the region (4,0,13,10)
C10_Witness ==
    /\ entry = "dock" /\ pc = "dock" /\ dock_i = 2 /\ region = Region(4, 0, 13, 10)
    /\ children[1].dock = "top" /\ children[1].margin = Spacing(1, 0, 0, 1)
    /\ dock_placements[1].region = Region(5, 1, 2, 1)
====
